---------------------------- MODULE Spec2Model ----------------------------
(***************************************************************************)
(* Model of two components of the repository:                              *)
(*                                                                         *)
(*  - the typed layout copier convert_and_copy of the GPU plugin (the      *)
(*    file-local copy routine and its two public entry points), and        *)
(*  - the graph rewrite callback of ReshapeFullyConnected.                 *)
(*                                                                         *)
(* Memory is a little-endian sequence of bytes (0..255).  An element of    *)
(* type t occupies ElemSize(t) consecutive bytes.                          *)
(***************************************************************************)
EXTENDS Integers, Sequences, FiniteSets, TLC

(***************************************************************************)
(* Bounds of the model.                                                    *)
(***************************************************************************)
MaxExtent == 2   \* largest extent of one axis of a source layout
MaxElems  == 4   \* largest logical element count of a source layout
MaxPad    == 1   \* largest lower / upper padding of the padded axis
MaxFlat   == 2   \* largest element count where every type pair is tried
MaxRank   == 3   \* largest rank of a fully-connected node's data input
MaxDim    == 2   \* largest size of one dimension of a graph shape
MaxNodes  == 24  \* cap on the nodes of a graph (a pass over two nodes reaches 18)

(***************************************************************************)
(* Small arithmetic helpers.                                               *)
(***************************************************************************)
RECURSIVE Pow2(_)
Pow2(n) == IF n = 0 THEN 1 ELSE 2 * Pow2(n - 1)

RECURSIVE Log2(_)
Log2(v) == IF v <= 1 THEN 0 ELSE 1 + Log2(v \div 2)

RECURSIVE Product(_)
Product(s) == IF s = <<>> THEN 1 ELSE Head(s) * Product(Tail(s))

\* n bytes, little-endian, of the non-negative integer v (v < 2^31)
RECURSIVE ToBytes(_, _)
ToBytes(v, n) == IF n = 0 THEN <<>> ELSE <<v % 256>> \o ToBytes(v \div 256, n - 1)

\* the n-bit field of a byte sequence that starts at bit lo (bit 0 = least
\* significant bit of the first byte); n <= 30
RECURSIVE Field(_, _, _)
Field(bytes, lo, n) ==
    IF n = 0 THEN 0
    ELSE ((bytes[(lo \div 8) + 1] \div Pow2(lo % 8)) % 2) + 2 * Field(bytes, lo + 1, n - 1)

(***************************************************************************)
(* Element types (ov::element::Type) and their sizes in bytes.             *)
(***************************************************************************)
ElementTypes == {"f64", "f32", "f16", "i64", "u64", "i32", "u32", "i16", "u16", "i8", "u8"}

ElemSize(t) ==
    CASE t \in {"f64", "i64", "u64"} -> 8
      [] t \in {"f32", "i32", "u32"} -> 4
      [] t \in {"f16", "i16", "u16"} -> 2
      [] OTHER -> 1

IsFloat(t) == t \in {"f64", "f32", "f16"}
IsSignedInt(t) == t \in {"i64", "i32", "i16", "i8"}
ExpBits(t) == CASE t = "f64" -> 11 [] t = "f32" -> 8 [] OTHER -> 5
ManBits(t) == CASE t = "f64" -> 52 [] t = "f32" -> 23 [] OTHER -> 10
Bias(t) == Pow2(ExpBits(t) - 1) - 1

(***************************************************************************)
(* The supported type-pair table: the CASE(...) lines of the file-local    *)
(* convert_and_copy, in source order.                                      *)
(***************************************************************************)
SupportedPairs ==
    << <<"f64", "f32">>, <<"i16", "f32">>, <<"u16", "f32">>,
       <<"u64", "i32">>, <<"i64", "i32">>, <<"u32", "i32">>,
       <<"f32", "f64">>, <<"i32", "i64">>, <<"i32", "u64">>,
       <<"i32", "u32">>, <<"f32", "i16">>, <<"f32", "u16">>,
       <<"u32", "i64">>, <<"u32", "u64">>,
       <<"f32", "f32">>, <<"f16", "f16">>, <<"f32", "f16">>, <<"f16", "f32">> >>

IsSupported(s, d) == \E i \in 1 .. Len(SupportedPairs) : SupportedPairs[i] = <<s, d>>

(***************************************************************************)
(* static_cast<dst_t>(src[i]) on the byte images of the two values.  The   *)
(* result is a SET of byte images: one image where the conversion is       *)
(* defined, several where C++ leaves it undefined (a floating value whose  *)
(* truncation the integer type cannot represent).                          *)
(***************************************************************************)

\* integer -> integer: truncation to the low bytes, or sign/zero extension
IntToInt(s, d, bytes) ==
    LET ss == ElemSize(s)
        ds == ElemSize(d)
        fill == IF IsSignedInt(s) /\ bytes[ss] >= 128 THEN 255 ELSE 0
    IN  IF ds <= ss THEN SubSeq(bytes, 1, ds)
        ELSE bytes \o [i \in 1 .. (ds - ss) |-> fill]

\* the byte image of a float of type d from its sign and exponent|mantissa word
\* (narrow formats only: the word is below 2^31)
PackNarrow(d, sign, word) ==
    LET n == ElemSize(d)
        lowBytes == ToBytes(word, n)
    IN  [lowBytes EXCEPT ![n] = @ + 128 * sign]

\* float -> narrower float, round to nearest, ties to even
FloatNarrow(s, d, bytes) ==
    LET sm == ManBits(s)
        dm == ManBits(d)
        drop == sm - dm
        sign == Field(bytes, 8 * ElemSize(s) - 1, 1)
        E == Field(bytes, sm, ExpBits(s))
        Mhi == Field(bytes, drop, dm)
        \* the dropped bits: the round bit and whether anything lies below it
        roundBit == Field(bytes, drop - 1, 1)
        sticky == \E k \in 0 .. (drop - 2) : Field(bytes, k, 1) = 1
        maxE == Pow2(ExpBits(d)) - 1
        te == E - Bias(s) + Bias(d)
        infWord == maxE * Pow2(dm)
    IN  IF E = Pow2(ExpBits(s)) - 1
        THEN IF Mhi = 0 /\ roundBit = 0 /\ ~sticky
             THEN PackNarrow(d, sign, infWord)
             ELSE PackNarrow(d, sign, infWord + Pow2(dm - 1) + (Mhi % Pow2(dm - 1)))
        ELSE IF E = 0 THEN PackNarrow(d, sign, 0)
        ELSE IF te >= maxE THEN PackNarrow(d, sign, infWord)
        ELSE IF te >= 1
        THEN LET inc == IF roundBit = 1 /\ (sticky \/ Mhi % 2 = 1) THEN 1 ELSE 0
             IN  PackNarrow(d, sign, te * Pow2(dm) + Mhi + inc)
        ELSE LET sh == 1 - te
                 sig == Pow2(dm) + Mhi
             IN  IF sh > dm + 1 THEN PackNarrow(d, sign, 0)
                 ELSE LET q == sig \div Pow2(sh)
                          r == sig % Pow2(sh)
                          half == Pow2(sh - 1)
                          below == roundBit = 1 \/ sticky
                          inc == IF r > half \/ (r = half /\ (below \/ q % 2 = 1))
                                 THEN 1 ELSE 0
                      IN  PackNarrow(d, sign, q + inc)

\* the bits of v, most significant first, in n positions
RECURSIVE BitsOf(_, _)
BitsOf(v, n) == IF n = 0 THEN <<>> ELSE BitsOf(v \div 2, n - 1) \o <<v % 2>>

\* bytes (little-endian) of a most-significant-first bit sequence
RECURSIVE BitsToBytes(_)
BitsToBytes(bits) ==
    IF bits = <<>> THEN <<>>
    ELSE LET n == Len(bits)
             low == SubSeq(bits, n - 7, n)
             val == low[1] * 128 + low[2] * 64 + low[3] * 32 + low[4] * 16
                    + low[5] * 8 + low[6] * 4 + low[7] * 2 + low[8]
         IN  <<val>> \o BitsToBytes(SubSeq(bits, 1, n - 8))

\* float -> wider float: exact
FloatWiden(s, d, bytes) ==
    LET sm == ManBits(s)
        dm == ManBits(d)
        sign == Field(bytes, 8 * ElemSize(s) - 1, 1)
        E == Field(bytes, sm, ExpBits(s))
        M == Field(bytes, 0, sm)
        zeros(n) == [i \in 1 .. n |-> 0]
        pack(e, mant) == BitsToBytes(<<sign>> \o BitsOf(e, ExpBits(d)) \o mant)
    IN  IF E = Pow2(ExpBits(s)) - 1
        THEN pack(Pow2(ExpBits(d)) - 1, BitsOf(M, sm) \o zeros(dm - sm))
        ELSE IF E = 0 /\ M = 0 THEN pack(0, zeros(dm))
        ELSE IF E = 0
        THEN LET p == Log2(M)
             IN  pack(p + 1 - Bias(s) - sm + Bias(d),
                      BitsOf(M - Pow2(p), p) \o zeros(dm - p))
        ELSE pack(E - Bias(s) + Bias(d), BitsOf(M, sm) \o zeros(dm - sm))

\* 16-bit integer -> f32: exact
Int16ToFloat(s, bytes) ==
    LET raw == bytes[1] + 256 * bytes[2]
        v == IF IsSignedInt(s) /\ raw >= 32768 THEN raw - 65536 ELSE raw
        a == IF v < 0 THEN -v ELSE v
        p == Log2(a)
    IN  IF v = 0 THEN <<0, 0, 0, 0>>
        ELSE PackNarrow("f32", IF v < 0 THEN 1 ELSE 0,
                        (127 + p) * Pow2(23) + (a - Pow2(p)) * Pow2(23 - p))

\* what an out-of-range float -> integer conversion may leave in the destination
UndefinedInt16 == {<<0, 0>>, <<255, 255>>, <<0, 128>>, <<255, 127>>}

\* f32 -> 16-bit integer: truncation toward zero; undefined out of range
FloatToInt16(d, bytes) ==
    LET sign == Field(bytes, 31, 1)
        E == Field(bytes, 23, 8)
        M == Field(bytes, 0, 23)
        p == E - 127
        mag == (Pow2(23) + M) \div Pow2(23 - p)
        v == IF sign = 1 THEN -mag ELSE mag
        lo == IF d = "i16" THEN -32768 ELSE 0
        hi == IF d = "i16" THEN 32767 ELSE 65535
    IN  IF E < 127 THEN {<<0, 0>>}
        ELSE IF p > 16 THEN UndefinedInt16
        ELSE IF v < lo \/ v > hi THEN UndefinedInt16
        ELSE {ToBytes(IF v < 0 THEN v + 65536 ELSE v, 2)}

Cast(s, d, bytes) ==
    CASE s = d -> {bytes}
      [] IsFloat(s) /\ IsFloat(d) /\ ElemSize(d) < ElemSize(s) -> {FloatNarrow(s, d, bytes)}
      [] IsFloat(s) /\ IsFloat(d) -> {FloatWiden(s, d, bytes)}
      [] IsFloat(s) /\ d \in {"i16", "u16"} -> FloatToInt16(d, bytes)
      [] s \in {"i16", "u16"} /\ IsFloat(d) -> {Int16ToFloat(s, bytes)}
      [] OTHER -> {IntToInt(s, d, bytes)}

(***************************************************************************)
(* cldnn::layout: the logical extents of the six axes and the padding.     *)
(* cldnn::tensor(b, f, x, y, z, w): spatial[0] = x ... spatial[3] = w.     *)
(***************************************************************************)
\* the axes from the outermost to the innermost of the bfwzyx memory order
Axes == <<"b", "f", "w", "z", "y", "x">>
AxisSet == {Axes[i] : i \in 1 .. Len(Axes)}

\* the loop nest with the two innermost loops exchanged
LoopOrderYInnermost == <<"b", "f", "w", "z", "x", "y">>

\* the loop nest of convert_and_copy_padded_source, outermost loop first:
\* b over batch[0], f over feature[0], w, z, y, x over spatial[3], [2], [1], [0]
LoopOrder == <<"b", "f", "w", "z", "y", "x">>

\* layout.data_padding converted to bool: some lower or upper padding is non-zero
data_padding(layout) == \E a \in AxisSet : layout.lower[a] # 0 \/ layout.upper[a] # 0

\* the padded extent of one axis
PaddedExtent(layout, a) == layout.lower[a] + layout.ext[a] + layout.upper[a]

\* layout.count(): the number of logical elements
LogicalCount(layout) == Product([i \in 1 .. Len(Axes) |-> layout.ext[Axes[i]]])

\* the number of element slots of the memory that holds the layout
PhysicalCount(layout) == Product([i \in 1 .. Len(Axes) |-> PaddedExtent(layout, Axes[i])])

\* layout.get_linear_offset(idx): the affine addressing function
RECURSIVE OffsetFrom(_, _, _)
OffsetFrom(layout, idx, i) ==
    IF i > Len(Axes) THEN 0
    ELSE (idx[Axes[i]] + layout.lower[Axes[i]])
           * Product([j \in 1 .. (Len(Axes) - i) |-> PaddedExtent(layout, Axes[i + j])])
         + OffsetFrom(layout, idx, i + 1)

get_linear_offset(layout, idx) == OffsetFrom(layout, idx, 1)

\* cldnn::layout({}, undefined, bfyx, padding()): no extents, no padding
EmptyLayout ==
    [ext |-> [a \in AxisSet |-> 1], lower |-> [a \in AxisSet |-> 0],
     upper |-> [a \in AxisSet |-> 0]]

(***************************************************************************)
(* Memory access.                                                          *)
(***************************************************************************)
\* element i (from 0) of a byte sequence holding elements of type t
ElemAt(mem, t, i) == SubSeq(mem, i * ElemSize(t) + 1, (i + 1) * ElemSize(t))

RECURSIVE Flatten(_)
Flatten(ss) == IF ss = <<>> THEN <<>> ELSE Head(ss) \o Flatten(Tail(ss))

\* every byte sequence obtained by picking one image per element
RECURSIVE Images(_)
Images(choices) ==
    IF choices = <<>> THEN {<<>>}
    ELSE {h \o r : h \in Head(choices), r \in Images(Tail(choices))}

\* The stores of one copy: `image` is written from dst_ptr on.  Stores past the
\* end of the destination are out of bounds: they land in the memory that
\* follows, or the first of them faults.
Store(dst, image) ==
    LET n == Len(image)
        m == Len(dst)
    IN  IF n <= m
        THEN {[status |-> "ok", dst |-> image \o SubSeq(dst, n + 1, m), stored |-> n]}
        ELSE {[status |-> "ok", dst |-> image, stored |-> n],
              [status |-> "fault", dst |-> SubSeq(image, 1, m), stored |-> m]}

\* a block copy of `size` bytes instead of `size` elements
BlockCopyBytes(src, src_et, dst, size) == Store(dst, SubSeq(src, 1, size))

\* std::memcpy(dst_ptr, src_ptr, size * src_et.size())
BlockCopy(src, src_et, dst, size) == Store(dst, SubSeq(src, 1, size * ElemSize(src_et)))

\* the flat loop started at i = 1: element 0 is never converted
convert_and_copy_no_pad_from_1(src, src_et, dst, dst_et, size) ==
    LET choices == [i \in 1 .. (size - 1) |-> Cast(src_et, dst_et, ElemAt(src, src_et, i))]
        first == SubSeq(dst, 1, ElemSize(dst_et))
    IN  {[status |-> "ok", dst |-> first \o image, stored |-> size * ElemSize(dst_et)] :
            image \in Images(choices)}

\* for (i = 0; i < size; i++) dst[i] = static_cast<dst_t>(src[i]);
convert_and_copy_no_pad(src, src_et, dst, dst_et, size) ==
    LET choices == [i \in 1 .. size |-> Cast(src_et, dst_et, ElemAt(src, src_et, i - 1))]
    IN  UNION {Store(dst, image) : image \in Images(choices)}

\* the source offsets read by the loop nest of convert_and_copy_padded_source,
\* in the order of the reads: b, f, w, z, y outermost to x innermost
RECURSIVE PaddedLoop(_, _, _)
PaddedLoop(layout, idx, i) ==
    IF i > Len(LoopOrder) THEN <<get_linear_offset(layout, idx)>>
    ELSE Flatten([k \in 1 .. layout.ext[LoopOrder[i]] |->
                     PaddedLoop(layout, [idx EXCEPT ![LoopOrder[i]] = k - 1], i + 1)])

\* *dst++ = static_cast<dst_t>(src[layout.get_linear_offset(tensor(b, f, x, y, z, w))])
convert_and_copy_padded_source(src, src_et, dst, dst_et, layout) ==
    LET offsets == PaddedLoop(layout, [a \in AxisSet |-> 0], 1)
        choices == [k \in 1 .. Len(offsets) |->
                       Cast(src_et, dst_et, ElemAt(src, src_et, offsets[k]))]
    IN  UNION {Store(dst, image) : image \in Images(choices)}

\* the CASE(...) chain: the first pair of the table that matches, or 0
FirstCase(src_et, dst_et) ==
    IF \E i \in 1 .. Len(SupportedPairs) : SupportedPairs[i] = <<src_et, dst_et>>
    THEN CHOOSE i \in 1 .. Len(SupportedPairs) :
            /\ SupportedPairs[i] = <<src_et, dst_et>>
            /\ \A j \in 1 .. (i - 1) : SupportedPairs[j] # <<src_et, dst_et>>
    ELSE 0

\* the copy routine without its final throw: an unmatched pair returns normally
convert_and_copy_no_throw(src, src_et, dst, dst_et, size, layout) ==
    IF size = 0
    THEN {[status |-> "ok", dst |-> dst, stored |-> 0]}
    ELSE IF src_et = dst_et /\ ~data_padding(layout)
    THEN BlockCopy(src, src_et, dst, size)
    ELSE IF FirstCase(src_et, dst_et) # 0
    THEN IF data_padding(layout)
         THEN convert_and_copy_padded_source(src, src_et, dst, dst_et, layout)
         ELSE convert_and_copy_no_pad(src, src_et, dst, dst_et, size)
    ELSE {[status |-> "ok", dst |-> dst, stored |-> 0]}

(***************************************************************************)
(* The file-local convert_and_copy(src_ptr, src_et, dst_ptr, dst_et, size, *)
(* layout): the set of its outcomes [status, dst, stored], where dst is    *)
(* the destination memory afterwards and stored the number of bytes stored *)
(* from dst_ptr on.  Both pointers are non-null (the assertion of          *)
(* convert_and_copy_no_pad holds).                                         *)
(***************************************************************************)
convert_and_copy(src, src_et, dst, dst_et, size, layout) ==
    IF size = 0
    THEN {[status |-> "ok", dst |-> dst, stored |-> 0]}
    ELSE IF src_et = dst_et /\ ~data_padding(layout)
    THEN BlockCopy(src, src_et, dst, size)
    ELSE IF FirstCase(src_et, dst_et) # 0
    THEN IF data_padding(layout)
         THEN convert_and_copy_padded_source(src, src_et, dst, dst_et, layout)
         ELSE convert_and_copy_no_pad(src, src_et, dst, dst_et, size)
    ELSE {[status |-> "unsupported", dst |-> dst, stored |-> 0]}

(***************************************************************************)
(* Inputs of a call.                                                       *)
(***************************************************************************)
\* sample values of each element type, as byte images
Samples(t) ==
    CASE t = "f64" -> << <<154, 153, 153, 153, 153, 153, 185, 63>>, <<0, 0, 0, 0, 0, 0, 4, 192>>, <<165, 92, 195, 241, 41, 99, 61, 72>> >>
      [] t = "f32" -> << <<0, 0, 32, 192>>, <<0, 184, 136, 71>>, <<205, 204, 204, 61>> >>
      [] t = "f16" -> << <<102, 46>>, <<0, 193>>, <<1, 0>> >>
      [] t = "i64" -> << <<255, 255, 255, 255, 255, 255, 255, 255>>, <<7, 0, 0, 0, 1, 0, 0, 0>>, <<5, 0, 0, 0, 0, 0, 0, 0>> >>
      [] t = "u64" -> << <<5, 0, 0, 0, 0, 0, 0, 128>>, <<7, 0, 0, 0, 1, 0, 0, 0>>, <<5, 0, 0, 0, 0, 0, 0, 0>> >>
      [] t = "i32" -> << <<254, 255, 255, 255>>, <<120, 86, 52, 18>>, <<5, 0, 0, 0>> >>
      [] t = "u32" -> << <<254, 255, 255, 255>>, <<0, 0, 0, 128>>, <<5, 0, 0, 0>> >>
      [] t = "i16" -> << <<212, 254>>, <<57, 48>>, <<5, 0>> >>
      [] t = "u16" -> << <<64, 156>>, <<57, 48>>, <<5, 0>> >>
      [] t = "i8" -> << <<253>>, <<100>>, <<5>> >>
      [] OTHER -> << <<200>>, <<100>>, <<5>> >>

\* a source memory of n elements of type t: the samples in rotation
SourceImage(t, n) ==
    Flatten([j \in 1 .. n |-> Samples(t)[((j - 1) % Len(Samples(t))) + 1]])

\* a destination memory of n elements of type t, filled with 0xAA
DestImage(t, n) == [i \in 1 .. n * ElemSize(t) |-> 170]

\* source layouts: at most one padded axis
PadChoices ==
    {[lower |-> [a \in AxisSet |-> IF a = pa THEN lo ELSE 0],
      upper |-> [a \in AxisSet |-> IF a = pa THEN up ELSE 0]] :
        pa \in AxisSet, lo \in 0 .. MaxPad, up \in 0 .. MaxPad}

Layouts ==
    {[ext |-> e, lower |-> p.lower, upper |-> p.upper] :
        e \in {f \in [AxisSet -> 1 .. MaxExtent] :
                  Product([i \in 1 .. Len(Axes) |-> f[Axes[i]]]) <= MaxElems},
        p \in PadChoices}

\* layouts whose only axis longer than 1, and only padded axis, is x
FlatLayouts ==
    {l \in Layouts :
        /\ l.ext["x"] <= MaxFlat
        /\ \A a \in AxisSet \ {"x"} : l.ext[a] = 1 /\ l.lower[a] = 0 /\ l.upper[a] = 0}

\* the type pairs tried with every layout; every pair is tried with the flat ones
LayoutPairs == {<<"f32", "f16">>, <<"f32", "f32">>, <<"u64", "i32">>, <<"i8", "i8">>}

VARIABLES
    call,      \* the arguments of the entry point being executed
    pc,        \* the position in the entry point
    srcMem,    \* the bytes of the source memory
    dstMem,    \* the bytes from dst_ptr on
    status,    \* "running", "ok", "unsupported" (the throw), "fault"
    stored,    \* bytes stored from dst_ptr on by the copy
    locked,    \* per side: how many times a mem_lock was constructed
    unlocked,  \* per side: how many times a mem_lock was destroyed
    held,      \* per side: whether a mem_lock is alive
    nodes,     \* the graph: node id -> [op, in, shape, name, value]
    pending,   \* fully-connected nodes the pass has still to match
    cand,      \* the match root of the last callback invocation (0: none yet)
    veto,      \* what transformation_callback answered for it
    ret,       \* what the callback returned
    before,    \* the graph before the last callback invocation
    rewrites,  \* how many invocations returned true
    original   \* the fully-connected nodes of the graph the pass started from

copyVars == <<call, pc, srcMem, dstMem, status, stored, locked, unlocked, held>>
graphVars == <<nodes, pending, cand, veto, ret, before, rewrites, original>>
vars == <<copyVars, graphVars>>

Sides == {"src", "dst"}

\* entry 1: convert_and_copy(cldnn::memory::ptr src, ov::ITensor const* dst, stream)
\* The source holds at least the `size` elements the destination's shape asks for.
Call1(p, l, n, dr) ==
    [entry |-> 1, src_et |-> p[1], dst_et |-> p[2], size |-> n, layout |-> l,
     srcCount |-> LogicalCount(l), srcRemote |-> TRUE, dstRemote |-> dr]

\* entry 2: convert_and_copy(const ov::ITensor* src, ov::ITensor const* dst, stream)
Call2(p, c, n, sr, dr) ==
    [entry |-> 2, src_et |-> p[1], dst_et |-> p[2], size |-> n, layout |-> EmptyLayout,
     srcCount |-> c, srcRemote |-> sr, dstRemote |-> dr]

AllPairs == ElementTypes \X ElementTypes

CallInit ==
    \/ \E p \in LayoutPairs, l \in Layouts, dr \in BOOLEAN :
          \E n \in 0 .. LogicalCount(l) : call = Call1(p, l, n, dr)
    \/ \E p \in AllPairs, l \in FlatLayouts, dr \in BOOLEAN :
          \E n \in 0 .. LogicalCount(l) : call = Call1(p, l, n, dr)
    \/ \E p \in AllPairs, c \in 0 .. MaxFlat, sr \in BOOLEAN, dr \in BOOLEAN :
          \E n \in 0 .. c : call = Call2(p, c, n, sr, dr)

\* the graph is not touched by the copier
NoGraph ==
    /\ nodes = <<>> /\ pending = {} /\ cand = 0 /\ veto = FALSE /\ ret = FALSE
    /\ before = <<>> /\ rewrites = 0 /\ original = {}

CopyInit ==
    /\ CallInit
    /\ pc = "resolve_src"
    /\ srcMem = SourceImage(call.src_et,
                            IF call.entry = 1 THEN PhysicalCount(call.layout) ELSE call.srcCount)
    /\ dstMem = DestImage(call.dst_et, call.size)
    /\ status = "running"
    /\ stored = 0
    /\ locked = [s \in Sides |-> 0]
    /\ unlocked = [s \in Sides |-> 0]
    /\ held = [s \in Sides |-> FALSE]
    /\ NoGraph

\* cldnn::mem_lock<uint8_t, read> src_lock(src, stream);
LockSource1 ==
    /\ pc = "resolve_src" /\ call.entry = 1
    /\ locked' = [locked EXCEPT !["src"] = @ + 1]
    /\ held' = [held EXCEPT !["src"] = TRUE]
    /\ pc' = "resolve_dst"
    /\ UNCHANGED <<call, srcMem, dstMem, status, stored, unlocked, graphVars>>

\* if (auto remote = dynamic_cast<const RemoteTensorImpl*>(src)) lock; else src->data()
ResolveSource2 ==
    /\ pc = "resolve_src" /\ call.entry = 2
    /\ IF call.srcRemote
       THEN /\ locked' = [locked EXCEPT !["src"] = @ + 1]
            /\ held' = [held EXCEPT !["src"] = TRUE]
       ELSE UNCHANGED <<locked, held>>
    /\ pc' = "resolve_dst"
    /\ UNCHANGED <<call, srcMem, dstMem, status, stored, unlocked, graphVars>>

\* if (auto remote = dynamic_cast<const RemoteTensorImpl*>(dst)) lock; else dst->data()
ResolveDestination ==
    /\ pc = "resolve_dst"
    /\ IF call.dstRemote
       THEN /\ locked' = [locked EXCEPT !["dst"] = @ + 1]
            /\ held' = [held EXCEPT !["dst"] = TRUE]
       ELSE UNCHANGED <<locked, held>>
    /\ pc' = "copy"
    /\ UNCHANGED <<call, srcMem, dstMem, status, stored, unlocked, graphVars>>

\* return ::convert_and_copy(src_ptr, src_et, dst_ptr, dst_et, size, layout);
CallCopy ==
    /\ pc = "copy"
    /\ \E o \in convert_and_copy(srcMem, call.src_et, dstMem, call.dst_et, call.size, call.layout) :
          /\ dstMem' = o.dst
          /\ stored' = o.stored
          /\ status' = o.status
          /\ pc' = IF o.status = "fault" THEN "faulted" ELSE "unwind_dst"
    /\ UNCHANGED <<call, srcMem, locked, unlocked, held, graphVars>>

\* a destination lock released by hand after the copy: the throw skips it
ReleaseDestinationOnReturn ==
    /\ pc = "unwind_dst"
    /\ IF held["dst"] /\ status = "ok"
       THEN /\ unlocked' = [unlocked EXCEPT !["dst"] = @ + 1]
            /\ held' = [held EXCEPT !["dst"] = FALSE]
       ELSE UNCHANGED <<unlocked, held>>
    /\ pc' = "unwind_src"
    /\ UNCHANGED <<call, srcMem, dstMem, status, stored, locked, graphVars>>

\* ~unique_ptr<mem_lock> dst_lock, on return and on the throw alike
ReleaseDestination ==
    /\ pc = "unwind_dst"
    /\ IF held["dst"]
       THEN /\ unlocked' = [unlocked EXCEPT !["dst"] = @ + 1]
            /\ held' = [held EXCEPT !["dst"] = FALSE]
       ELSE UNCHANGED <<unlocked, held>>
    /\ pc' = "unwind_src"
    /\ UNCHANGED <<call, srcMem, dstMem, status, stored, locked, graphVars>>

\* ~mem_lock src_lock / ~unique_ptr<mem_lock> src_lock
ReleaseSource ==
    /\ pc = "unwind_src"
    /\ IF held["src"]
       THEN /\ unlocked' = [unlocked EXCEPT !["src"] = @ + 1]
            /\ held' = [held EXCEPT !["src"] = FALSE]
       ELSE UNCHANGED <<unlocked, held>>
    /\ pc' = "exited"
    /\ UNCHANGED <<call, srcMem, dstMem, status, stored, locked, graphVars>>

CopyNext ==
    \/ LockSource1
    \/ ResolveSource2
    \/ ResolveDestination
    \/ CallCopy
    \/ ReleaseDestination
    \/ ReleaseSource

CopySpec == CopyInit /\ [][CopyNext]_vars

(***************************************************************************)
(* Properties of the copier, checked under CopySpec.                       *)
(***************************************************************************)
\* the file-local convert_and_copy has returned or thrown
CopyDone == pc \in {"unwind_dst", "unwind_src", "exited"}

NonTrivial == call.src_et # call.dst_et \/ data_padding(call.layout)

DstUntouched == stored = 0 /\ dstMem = DestImage(call.dst_et, call.size)

\* C1, as stated: for a type pair absent from the table and a non-trivial
\* conversion (differing types or padded source), copy fails with
\* UnsupportedConversion and writes nothing to the destination.
C1_UnsupportedAlwaysFails ==
    (CopyDone /\ ~IsSupported(call.src_et, call.dst_et) /\ NonTrivial)
        => (status = "unsupported" /\ DstUntouched)

\* C1, amended: the same for every element count above 0; with element count 0
\* the copy returns successfully before the table is consulted, and writes nothing.
C1_UnsupportedFailsWhenNonEmpty ==
    (CopyDone /\ ~IsSupported(call.src_et, call.dst_et) /\ NonTrivial)
        => /\ DstUntouched
           /\ call.size > 0 => status = "unsupported"
           /\ call.size = 0 => status = "ok"

C1_Witness ==
    /\ CopyDone /\ ~IsSupported(call.src_et, call.dst_et)
    /\ call.src_et # call.dst_et /\ call.size > 0 /\ status = "unsupported"

\* C2: in every call of either entry point each indirect buffer is locked at
\* most once at any time, a directly addressable buffer is never locked, and when
\* the call has exited (by return or by the unsupported-pair throw) each indirect
\* buffer was locked exactly once and unlocked exactly once and no lock is held.
C2_LockDiscipline ==
    \A s \in Sides :
        LET indirect == IF s = "src" THEN call.srcRemote ELSE call.dstRemote
        IN  /\ locked[s] <= 1 /\ unlocked[s] <= locked[s]
            /\ ~indirect => locked[s] = 0
            /\ held[s] <=> (locked[s] = 1 /\ unlocked[s] = 0)
            /\ (pc = "copy" /\ indirect) => held[s]
            /\ (pc = "exited" /\ status \in {"ok", "unsupported"})
                  => /\ ~held[s]
                     /\ locked[s] = (IF indirect THEN 1 ELSE 0)
                     /\ unlocked[s] = locked[s]

C2_Witness ==
    /\ pc = "exited" /\ status = "unsupported" /\ call.entry = 2
    /\ call.dstRemote /\ ~call.srcRemote
    /\ locked["dst"] = 1 /\ unlocked["dst"] = 1 /\ locked["src"] = 0

\* C3: with identical element types and an unpadded source layout, for every
\* element count >= 0 and every element type (also one the table never names),
\* copy succeeds and the first element_count * element_size bytes of the
\* destination equal those of the source.
C3_BlockCopy ==
    (CopyDone /\ call.src_et = call.dst_et /\ ~data_padding(call.layout))
        => LET n == call.size * ElemSize(call.src_et)
           IN  /\ status = "ok"
               /\ Len(dstMem) >= n
               /\ SubSeq(dstMem, 1, n) = SubSeq(srcMem, 1, n)

C3_Witness ==
    /\ CopyDone /\ call.src_et = "u8" /\ call.dst_et = "u8" /\ call.size = 2
    /\ ~data_padding(call.layout)
    /\ \A i \in 1 .. Len(SupportedPairs) : "u8" \notin {SupportedPairs[i][1], SupportedPairs[i][2]}
    /\ status = "ok" /\ dstMem = <<200, 100>>

\* C4: for an unpadded source layout and a type pair of the table, destination
\* element i is the numeric cast of source element i for every i below the
\* element count, and nothing is stored at or past element_count.
C4_FlatCast ==
    (CopyDone /\ ~data_padding(call.layout) /\ IsSupported(call.src_et, call.dst_et))
        => /\ status = "ok"
           /\ stored <= call.size * ElemSize(call.dst_et)
           /\ Len(dstMem) = call.size * ElemSize(call.dst_et)
           /\ \A i \in 0 .. (call.size - 1) :
                 ElemAt(dstMem, call.dst_et, i)
                    \in Cast(call.src_et, call.dst_et, ElemAt(srcMem, call.src_et, i))

C4_Witness ==
    /\ CopyDone /\ ~data_padding(call.layout) /\ call.size = 2
    /\ call.src_et = "f64" /\ call.dst_et = "f32"
    /\ dstMem = <<205, 204, 204, 61, 0, 0, 32, 192>>

\* the k-th logical index (k from 0) of the traversal batch, feature, spatial
\* axis 3, 2, 1, 0, spatial axis 0 varying fastest
KthIndex(layout, k) ==
    LET X == layout.ext["x"]
        Y == layout.ext["y"]
        Z == layout.ext["z"]
        W == layout.ext["w"]
        F == layout.ext["f"]
    IN  [a \in AxisSet |->
            CASE a = "x" -> k % X
              [] a = "y" -> (k \div X) % Y
              [] a = "z" -> (k \div (X * Y)) % Z
              [] a = "w" -> (k \div (X * Y * Z)) % W
              [] a = "f" -> (k \div (X * Y * Z * W)) % F
              [] OTHER -> k \div (X * Y * Z * W * F)]

\* C5: for a padded source layout and a type pair of the table, the k-th element
\* stored in the destination is the cast of the source element at the offset the
\* layout's addressing function gives for the k-th logical index of the traversal
\* batch, feature, spatial axis 3, 2, 1, 0.
C5_PaddedTraversal ==
    (pc \in {"unwind_dst", "unwind_src", "exited", "faulted"} /\ call.size > 0
       /\ data_padding(call.layout) /\ IsSupported(call.src_et, call.dst_et))
        => /\ status \in {"ok", "fault"}
           /\ stored > 0
           /\ \A k \in 0 .. ((stored \div ElemSize(call.dst_et)) - 1) :
                 ElemAt(dstMem, call.dst_et, k)
                    \in Cast(call.src_et, call.dst_et,
                             ElemAt(srcMem, call.src_et,
                                    get_linear_offset(call.layout, KthIndex(call.layout, k))))

C5_Witness ==
    /\ CopyDone /\ status = "ok" /\ call.size = 4
    /\ call.src_et = "f32" /\ call.dst_et = "f16"
    /\ call.layout.ext["y"] = 2 /\ call.layout.ext["f"] = 2 /\ call.layout.lower["y"] = 1
    /\ stored = 4 * ElemSize("f16")

\* C9, as stated: every successful copy call with element_count = n stores
\* exactly n destination elements, on the block, the flat and the padded path.
C9_StoresElementCount ==
    (CopyDone /\ status = "ok") => stored = call.size * ElemSize(call.dst_et)

(***************************************************************************)
(* The rewrite callback of ReshapeFullyConnected.  A node is a record      *)
(* [op, in, shape, name, value]: in is the sequence of the ids of the      *)
(* nodes whose output it consumes, value the content of a Constant.        *)
(***************************************************************************)
Node(op, in, shape, name, value) ==
    [op |-> op, in |-> in, shape |-> shape, name |-> name, value |-> value]

Last(s) == s[Len(s)]
Front(s) == SubSeq(s, 1, Len(s) - 1)

\* the name of a node whose friendly name was never set
AutoName(op, id) == op \o "_" \o ToString(id)

\* the output shape of opset1::Reshape(data, pattern, special_zero = true)
ReshapeShape(input_shape, pattern) ==
    LET known == [i \in 1 .. Len(pattern) |->
                     IF pattern[i] = -1 THEN 1
                     ELSE IF pattern[i] = 0 THEN input_shape[i] ELSE pattern[i]]
    IN  [i \in 1 .. Len(pattern) |->
            IF pattern[i] = -1 THEN Product(input_shape) \div Product(known)
            ELSE known[i]]

\* ngraph::replace_node(target, replacement): every consumer of target's
\* output consumes replacement's output instead
replace_node(g, target, replacement) ==
    [i \in 1 .. Len(g) |->
        [g[i] EXCEPT !.in = [k \in 1 .. Len(g[i].in) |->
                                IF g[i].in[k] = target THEN replacement ELSE g[i].in[k]]]]

\* the candidate test without the veto callback
DeclinesCandidateIgnoringVeto(isFC, vetoed) == ~isFC

\* if (!fc || transformation_callback(fc)) return false;
DeclinesCandidate(isFC, vetoed) == ~isFC \/ vetoed

\* the rank test written with < for ==
DeclinesRankBelow2(input_shape) == Len(input_shape) < 2

\* if (input_shape.size() == 2) return false;
DeclinesRank(input_shape) == Len(input_shape) = 2

\* std::vector<int64_t> reshape_shape{-1, static_cast<int64_t>(input_shape.back())};
reshape_shape(input_shape) == <<-1, Last(input_shape)>>

\* the new node built over the original data input instead of the reshape
NewFCInputsOriginalData(reshape, fc) == <<fc.in[1], fc.in[2], fc.in[3]>>

\* make_shared<op::FullyConnected>(reshape, fc->input_value(1), fc->input_value(2), ...)
NewFCInputs(reshape, fc) == <<reshape, fc.in[2], fc.in[3]>>

\* the two renamings in the other order: the reshape gets the renamed name
TrailingNamesRenamedFirst(name) == [reshape_output |-> name \o "/FC", fc |-> name \o "/FC"]

\* reshape_output->set_friendly_name(fc->get_friendly_name());
\* fc->set_friendly_name(fc->get_friendly_name() + "/FC");
TrailingNames(name) == [reshape_output |-> name, fc |-> name \o "/FC"]

\* The callback on match root n, with the veto callback's answer: [ret, nodes].
callback(g, n, vetoed) ==
    LET fc == g[n]
        input_shape == g[fc.in[1]].shape
        output_shape == fc.shape
        id == Len(g)
        pattern == Node("Constant", <<>>, <<2>>, AutoName("Constant", id + 1),
                        reshape_shape(input_shape))
        reshape == Node("Reshape", <<fc.in[1], id + 1>>,
                        ReshapeShape(input_shape, reshape_shape(input_shape)),
                        fc.name \o "/Reshape", <<>>)
        I == reshape.shape[1]
        O == g[fc.in[2]].shape[1]
        output_shape_new == <<I, O>>
        fc_new == Node("FullyConnected", NewFCInputs(id + 2, fc), output_shape_new,
                       AutoName("FullyConnected", id + 3), <<>>)
        g3 == g \o <<pattern, reshape, fc_new>>
    IN  IF DeclinesCandidate(fc.op = "FullyConnected", vetoed) THEN [ret |-> FALSE, nodes |-> g]
        ELSE IF DeclinesRank(input_shape) THEN [ret |-> FALSE, nodes |-> g]
        ELSE IF output_shape # output_shape_new
        THEN LET names == TrailingNames(fc.name)
                 target == Node("Constant", <<>>, <<Len(output_shape)>>,
                                AutoName("Constant", id + 4), output_shape)
                 reshape_output == Node("Reshape", <<id + 3, id + 4>>,
                                        ReshapeShape(output_shape_new, output_shape),
                                        names.reshape_output, <<>>)
                 g5 == [g3 EXCEPT ![n].name = names.fc] \o <<target, reshape_output>>
             IN  [ret |-> TRUE, nodes |-> replace_node(g5, n, id + 5)]
        ELSE [ret |-> TRUE,
              nodes |-> replace_node([g3 EXCEPT ![id + 3].name = fc.name], n, id + 3)]

(***************************************************************************)
(* The graphs the pass starts from: a fully-connected node "fc1" over a    *)
(* data parameter, optionally followed by a second one, "fc2", over the    *)
(* first one's output, and a Result.                                       *)
(***************************************************************************)
RECURSIVE ShapesOfRank(_)
ShapesOfRank(r) ==
    IF r = 0 THEN {<<>>}
    ELSE {s \o <<d>> : s \in ShapesOfRank(r - 1), d \in 1 .. MaxDim}

DataShapes == UNION {ShapesOfRank(r) : r \in 1 .. MaxRank}

\* the statically known output shapes a fully-connected node may declare
OutShapes(data_shape, O) ==
    {Front(data_shape) \o <<O>>, <<Product(Front(data_shape)), O>>}

FCNodes(data, data_shape, O, out, name, first) ==
    << Node("Constant", <<>>, <<O, Last(data_shape)>>, AutoName("Constant", first), <<>>),
       Node("Constant", <<>>, <<O>>, AutoName("Constant", first + 1), <<>>),
       Node("FullyConnected", <<data, first, first + 1>>, out, name, <<>>) >>

Graph1(S, O, out) ==
    <<Node("Parameter", <<>>, S, "data", <<>>)>> \o FCNodes(1, S, O, out, "fc1", 2)

Result(of, shape, id) == <<Node("Result", <<of>>, shape, AutoName("Result", id), <<>>)>>

GraphInit ==
    \E S \in DataShapes, O \in 1 .. MaxDim :
       \E out \in OutShapes(S, O) :
          \/ /\ nodes = Graph1(S, O, out) \o Result(4, out, 5)
             /\ pending = {4}
          \/ \E O2 \in 1 .. MaxDim :
                \E out2 \in OutShapes(out, O2) :
                   /\ nodes = Graph1(S, O, out) \o FCNodes(4, out, O2, out2, "fc2", 5)
                                 \o Result(7, out2, 8)
                   /\ pending = {4, 7}

RewriteInit ==
    /\ GraphInit
    /\ cand = 0 /\ veto = FALSE /\ ret = FALSE /\ before = nodes /\ rewrites = 0
    /\ original = pending
    /\ call = [entry |-> 0] /\ pc = "none" /\ srcMem = <<>> /\ dstMem = <<>>
    /\ status = "none" /\ stored = 0
    /\ locked = [s \in Sides |-> 0] /\ unlocked = [s \in Sides |-> 0]
    /\ held = [s \in Sides |-> FALSE]

\* the fully-connected nodes the callback created
CreatedFC(g, was) == {i \in (Len(was) + 1) .. Len(g) : g[i].op = "FullyConnected"}

\* The matcher finds fully-connected node n (its pattern's root is a
\* FullyConnected) and invokes the callback; transformation_callback answers v.
\* The pass matches again on the nodes a rewrite created.
RunMatcher(n) ==
    /\ n \in pending
    /\ Len(nodes) + 5 <= MaxNodes
    /\ \E v \in BOOLEAN :
          LET r == callback(nodes, n, v)
          IN  /\ veto' = v
              /\ ret' = r.ret
              /\ nodes' = r.nodes
              /\ pending' = (pending \ {n}) \cup CreatedFC(r.nodes, nodes)
              /\ rewrites' = IF r.ret THEN rewrites + 1 ELSE rewrites
    /\ cand' = n
    /\ before' = nodes
    /\ UNCHANGED <<original, copyVars>>

RewriteNext == \E n \in pending : RunMatcher(n)

RewriteSpec == RewriteInit /\ [][RewriteNext]_vars

(***************************************************************************)
(* Properties of the rewrite rule, checked under RewriteSpec.              *)
(***************************************************************************)
\* the rank of the data input of the last match root, before the invocation
CandRank == Len(before[before[cand].in[1]].shape)

GraphUnchanged == nodes = before

\* C6: whenever the veto callback answers true for the candidate (whatever the
\* rank of its data input), or the data input has rank 2, the callback returns
\* false and the graph is unchanged: no node created, replaced or renamed.
C6_DeclineLeavesGraph ==
    (cand # 0 /\ (veto \/ CandRank = 2)) => (ret = FALSE /\ GraphUnchanged)

C6_Witness == cand # 0 /\ veto /\ CandRank = 3 /\ ret = FALSE /\ GraphUnchanged

\* every consumer of the match root's output now consumes q's output
RedirectedTo(q) ==
    /\ \E u \in 1 .. Len(before) : \E k \in 1 .. Len(before[u].in) : before[u].in[k] = cand
    /\ \A u \in 1 .. Len(before) : \A k \in 1 .. Len(before[u].in) :
          before[u].in[k] = cand => nodes[u].in[k] = q

\* the node the match root was replaced by (0: none)
Replacement ==
    IF \E q \in 1 .. Len(nodes) : RedirectedTo(q)
    THEN CHOOSE q \in 1 .. Len(nodes) : RedirectedTo(q)
    ELSE 0

\* C7: after a performed rewrite the node that replaces the original node has
\* the original output shape and friendly name; it is a trailing reshape (the
\* original renamed "<name>/FC") exactly when [I, O] differs from the original
\* output shape, and the new rank-2 fully-connected node otherwise; the new
\* fully-connected node consumes the "<name>/Reshape" node, the original weights
\* and the original bias.
C7_ReplacementKeepsShapeAndName ==
    (cand # 0 /\ ret) =>
        LET orig == before[cand]
            in_shape == before[orig.in[1]].shape
            I == Product(in_shape) \div Last(in_shape)
            O == before[orig.in[2]].shape[1]
            R == Replacement
            F == IF nodes[R].op = "Reshape" THEN nodes[R].in[1] ELSE R
        IN  /\ R > Len(before)
            /\ nodes[R].shape = orig.shape
            /\ nodes[R].name = orig.name
            /\ (orig.shape # <<I, O>>)
                  <=> (nodes[R].op = "Reshape" /\ nodes[cand].name = orig.name \o "/FC")
            /\ (orig.shape = <<I, O>>) <=> (nodes[R].op = "FullyConnected")
            /\ F > Len(before)
            /\ nodes[F].op = "FullyConnected"
            /\ nodes[F].shape = <<I, O>>
            /\ nodes[nodes[F].in[1]].op = "Reshape"
            /\ nodes[nodes[F].in[1]].name = orig.name \o "/Reshape"
            /\ nodes[nodes[F].in[1]].shape = <<I, Last(in_shape)>>
            /\ nodes[nodes[F].in[1]].in[1] = orig.in[1]
            /\ nodes[F].in[2] = orig.in[2]
            /\ nodes[F].in[3] = orig.in[3]

C7_Witness ==
    /\ cand # 0 /\ ret /\ CandRank = 3
    /\ Replacement # 0
    /\ nodes[Replacement].op = "Reshape"
    /\ nodes[Replacement].name = "fc1"
    /\ nodes[cand].name = "fc1/FC"

\* C8, as stated: the rule rewrites and returns true only for a node that is
\* not vetoed and whose data input has rank > 2; for every node whose data input
\* has rank <= 2 (rank 1 included) it returns false and leaves the graph unchanged.
C8_RewritesOnlyAboveRank2 ==
    cand # 0 =>
        /\ ret => (~veto /\ CandRank > 2)
        /\ CandRank <= 2 => (ret = FALSE /\ GraphUnchanged)

\* C8, amended: the rule rewrites and returns true only for a node that is not
\* vetoed and whose data input has a rank other than 2 (rank 1 is rewritten like
\* rank > 2); for every node whose data input has rank 2 it returns false and
\* leaves the graph unchanged.
C8_RewritesOnlyOffRank2 ==
    cand # 0 =>
        /\ ret => (~veto /\ CandRank # 2)
        /\ CandRank = 2 => (ret = FALSE /\ GraphUnchanged)
        /\ ret = FALSE => GraphUnchanged

C8_Witness == cand # 0 /\ CandRank = 1 /\ ~veto /\ ret /\ ~GraphUnchanged

\* the pass has nothing left to match
PassDone == pending = {}

\* what the pass has left to do: an original node may be matched and its
\* replacement matched again, a created node is matched once
Measure ==
    2 * Cardinality(pending \cap original) + Cardinality(pending \ original)

\* C10: a fully-connected node the rule created has a rank-2 data input, the
\* rule applied to it returns false and changes nothing, the pass performs at
\* most one rewrite per original fully-connected node, and it terminates: every
\* match strictly decreases a natural number.
C10_PassReachesFixedPoint ==
    /\ [](/\ \A i \in 1 .. Len(nodes) :
                (nodes[i].op = "FullyConnected" /\ i \notin original)
                    => Len(nodes[nodes[i].in[1]].shape) = 2
          /\ (cand # 0 /\ cand \notin original) => (ret = FALSE /\ GraphUnchanged)
          /\ rewrites <= Cardinality(original \ pending)
          /\ ret => cand \in original
          /\ Measure >= 0)
    /\ [][Measure' < Measure]_vars

C10_Witness ==
    /\ PassDone /\ rewrites = 2 /\ Cardinality(original) = 2
    /\ cand \notin original /\ cand # 0 /\ ret = FALSE

=============================================================================
